---- MODULE Spec2Model ----
(***************************************************************************)
(* Position lifecycle pipeline of the trading bot (src/main.py,            *)
(* src/solana_trader.py): detection de-duplication in                      *)
(* TradingBot.process_new_ca, the buy through SolanaTrader.buy_token, and  *)
(* one TradingBot.monitor_token_price task per successful buy; the         *)
(* delivery of notifications by TradingBot.notify_user; the wallet list,   *)
(* its active index and the trader's signing key under wallet creation     *)
(* and selection.                                                          *)
(*                                                                         *)
(* Every coroutine is cut at its await points: one action runs the code    *)
(* from one await to the next, and the value the awaited call returns is   *)
(* the input of the action that resumes the coroutine.                     *)
(*                                                                         *)
(* Numbers.  The code uses Python floats; the model uses exact values on   *)
(* fixed grids, chosen so that every product and quotient the code forms   *)
(* is an integer of the grid:                                              *)
(*   - SOL amounts and prices are in thousandths of a SOL (0.1 SOL = 100), *)
(*   - take_profit_price is kept in thousandths of a price unit,           *)
(*   - token_amount and sell_amount are kept in hundredths of a token.     *)
(***************************************************************************)
EXTENDS Integers, Sequences, FiniteSets, TLC

\* ------------------------------------------------------------- bounds ----
MaxDetections == 2      \* detection events the listener delivers (Spec)
MaxSharedPolls == 1     \* price requests answered in a run (Spec)
MaxTicks == 4           \* poll ticks of one monitor before its time is up
MaxSendFailures == 1    \* send_message calls that fail (SpecNotify)
MaxNotifyPolls == 2     \* price requests answered in a run (SpecNotify)
MaxPairPolls == 2       \* price requests answered in a run (SpecPair)
MaxAddresses == 2       \* addresses in the text of a message (SpecListener)
MaxMessages == 2        \* messages the groups post in a run (SpecListener)
MaxWallets == 6         \* wallets created in a run (SpecWallets)

\* ----------------------------------------------------- program constants --
monitoring_interval == 60
\* 60 * 60 * 24 in the code, that is 1440 ticks; scaled down to MaxTicks ticks
max_monitoring_time == monitoring_interval * MaxTicks
\* 0.1 SOL, in thousandths of a SOL
DefaultInvestment == 100
DefaultTakeProfit == 30
DefaultSellPercentage == 50

\* 1 SOL = 10^9 lamports
LamportsPerSol == 1000000000

\* ------------------------------------------------------------ input sets --
Tokens == {"TOKENA", "TOKENB"}
Groups == {"Alpha", "Beta"}
\* tokens a buy quote can return (quote_data['outAmount'] / 10**6)
Amounts == {10}
\* prices get_token_price can return; 0 is what it returns when the request
\* fails
PolledPrices == {0, 13, 15}
\* prices sell_token can return (sol_received / token_amount)
ExecPrices == {10, 13}
\* arguments of /set_take_profit, valid and invalid
ProfitArgs == {0, 30}
SellArgs == {0, 50, 100, 150}
\* valid arguments of /set_take_profit that differ from each other
ProfitChanges == {30, 60}
SellChanges == {50, 100}
\* arguments of /set_investment, in thousandths of a SOL
InvestmentArgs == {0, 200}
\* indices a select_wallet_<index> button can carry
SelectArgs == -1..MaxWallets

\* what the balance request can give: RequestFailed stands for a request or
\* a response from which no value can be read (an exception inside the try
\* block of get_balance), the other values are response['result']['value']
\* in lamports
RequestFailed == -1
BalanceResponses == {RequestFailed, 0, 2 * LamportsPerSol}

\* links of groups an /add_group command or a remove button can name
GroupLinks == {"https://t.me/alpha", "https://t.me/beta"}
\* what findall returns for the text of a message: the addresses in their
\* order, the same one possibly twice
AddressLists == UNION {[1..n -> Tokens] : n \in 0..MaxAddresses}

DetIds == 1..MaxDetections

VARIABLES
    traded_tokens,            \* self.trading_settings['traded_tokens'], a list
    take_profit_percentage,   \* self.trading_settings['take_profit_percentage']
    sell_percentage,          \* self.trading_settings['sell_percentage']
    initial_investment,       \* self.trading_settings['initial_investment']
    saved_settings,           \* what trading_settings.json holds
    det,                      \* one process_new_ca coroutine per detection
    mon,                      \* the monitor_token_price task of a detection
    user_chat_id,             \* hasattr(self, 'user_chat_id'): /start has run
    wallets,                  \* self.wallets['wallets'], a list of wallets
    active_wallet_index,      \* self.wallets['active_wallet_index'], 0-based
    wallet_info,              \* self.wallet_info of the bot
    trader_wallet_info,       \* self.solana_trader.wallet_info
    keypair,                  \* self.solana_trader.keypair, the signing key
    detections_left,          \* detection events the listener will still deliver
    polls_left,               \* price requests the quote service will still answer
    send_failures_left,       \* send_message calls Telegram will still fail
    balance,                  \* the last call of solana_trader.get_balance
    monitored_groups,         \* self.monitored_groups of the bot, as saved
    listener_groups,          \* self.monitored_groups of the listener, a set
    adding,                   \* groups whose get_entity request is pending
    running,                  \* self.running of the listener
    handler,                  \* the message_handler coroutine of a message
    messages_left             \* messages the monitored groups will still post

\* A wallet is named by the order of its creation (1, 2, ...): every call of
\* create_new_wallet draws a fresh key.  0 stands for None.
walletVars == <<wallets, active_wallet_index, wallet_info, trader_wallet_info,
                keypair>>

listenerVars == <<monitored_groups, listener_groups, adding, running,
                  handler, messages_left>>

vars == <<traded_tokens, take_profit_percentage, sell_percentage,
          initial_investment, saved_settings, det, mon,
          user_chat_id, walletVars, detections_left, polls_left,
          send_failures_left, balance, listenerVars>>

\* ------------------------------------------------------------- helpers ----
\* `ca_address in self.trading_settings['traded_tokens']`; the first
\* definition is the faulty variant that misses the list's first entry.
AlreadyTradedSkipFirst(ca) ==
    \E k \in DOMAIN traded_tokens : k > 1 /\ traded_tokens[k] = ca
AlreadyTraded(ca) ==
    \E k \in DOMAIN traded_tokens : traded_tokens[k] = ca

\* self.trading_settings['traded_tokens'].append(ca_address); the first
\* definition is the faulty variant that replaces the list by the new token.
RecordTradedReplace(traded, ca) == <<ca>>
RecordTraded(traded, ca) == Append(traded, ca)

\* price_per_token = sol_amount / token_amount
PricePerToken(sol_amount, amount) == sol_amount \div amount

\* entry_price * (1 + take_profit_percentage / 100), in thousandths
InitialTakeProfit(entry_price, pct) == entry_price * (100 + pct) * 10

\* token_amount * (sell_percentage / 100), both in hundredths of a token
SellAmount(token_amount, pct) == (token_amount * pct) \div 100

\* current_price >= take_profit_price; the first definitions are the faulty
\* variants with <= and with > for >=.
TriggeredInverted(current_price, take_profit_price) ==
    current_price * 1000 <= take_profit_price
TriggeredStrict(current_price, take_profit_price) ==
    current_price * 1000 > take_profit_price
Triggered(current_price, take_profit_price) ==
    current_price * 1000 >= take_profit_price

\* sell_result['price'] * 1.1, in thousandths; the first definition is the
\* faulty variant that trails from the previous target.
TrailFromTarget(price, old_target) == (old_target * 11) \div 10
Trail(price, old_target) == price * 1100

\* token_amount -= sell_amount; the first definition is the faulty variant
\* with += for -=.
RemainingAfterAdd(token_amount, sell_amount) == token_amount + sell_amount
RemainingAfter(token_amount, sell_amount) == token_amount - sell_amount

\* sell_result['price'] as the profit calculation reads it, given the price
\* of the executed sell and the price polled on the same tick; the first
\* definition is the faulty variant that reads the polled price.
ExitPricePolled(sell_price, current_price) == current_price
ExitPrice(sell_price, current_price) == sell_price

\* profit = (sell_result['price'] - entry_price) * sell_amount, the price in
\* thousandths of a SOL and the amount in hundredths of a token
Profit(price, entry_price, sell_amount) == (price - entry_price) * sell_amount

\* self.trading_settings['sell_percentage'] >= 100; the first definition is
\* the faulty variant with > for >=.
SoldEverythingStrict(pct) == pct > 100
SoldEverything(pct) == pct >= 100

\* float(text) also accepts "nan".  NaN stands for that value: it is no
\* number of the grid, and every comparison with it is false.
NaN == -999
FloatLe(x, y) == x # NaN /\ y # NaN /\ x <= y
FloatGt(x, y) == x # NaN /\ y # NaN /\ x > y

\* profit_percentage <= 0 or sell_percentage <= 0 or sell_percentage > 100
InvalidTakeProfitArgs(profit, sell) ==
    FloatLe(profit, 0) \/ FloatLe(sell, 0) \/ FloatGt(sell, 100)

\* amount <= 0
InvalidInvestmentArg(amount) == FloatLe(amount, 0)

\* json.dump(self.trading_settings, f): the file holds the whole settings
\* dictionary (max_slippage, which nothing changes, is left out).
Snapshot(investment, profit, sell, traded) ==
    [initial_investment |-> investment, take_profit_percentage |-> profit,
     sell_percentage |-> sell, traded_tokens |-> traded]

\* notify_user sends only if /start has stored a chat id, and the message
\* arrives only if send_message returns (ok) instead of raising.
Delivered(chat, ok) == chat /\ ok

\* notify_user wraps the send in try/except Exception and only logs: it
\* never raises to its caller.  The first definition is the faulty variant
\* without the try/except.
NotifyRaisesUncaught(chat, ok) == chat /\ ~ok
NotifyRaises(chat, ok) == FALSE

\* Where a coroutine is after `await self.notify_user(...)`: at its next
\* statement, or ended by the exception.
AfterNotify(chat, ok, pc) == IF NotifyRaises(chat, ok) THEN "crashed" ELSE pc

\* The results send_message can have: it returns (TRUE) or raises (FALSE).
SendOutcomes ==
    IF user_chat_id /\ send_failures_left > 0 THEN {TRUE, FALSE} ELSE {TRUE}

SendFailuresAfter(ok) ==
    IF ok THEN send_failures_left ELSE send_failures_left - 1

\* What a failed buy_token returns for a trader whose signing key is `kp`:
\* without a key the error 'No wallet configured' before any request, with a
\* key an error of the quote or swap request it made.  The first definition
\* is the faulty variant without the `if not self.keypair` test, which asks
\* for the quote and fails when it reads the key.
BuyFailureUnchecked(kp) == [error |-> "request failed", requests |-> 1]
BuyFailure(kp) ==
    IF kp = 0 THEN [error |-> "No wallet configured", requests |-> 0]
    ELSE [error |-> "request failed", requests |-> 1]

\* What a failed sell_token returns, in the same way.
SellFailure(kp) ==
    IF kp = 0 THEN [error |-> "No wallet configured", requests |-> 0]
    ELSE [error |-> "request failed", requests |-> 1]

\* det[i].lost: the notifications of the detection that did not arrive;
\* det[i].announced: the take profit percentage written into the "New Token
\* Trade" notification; det[i].error and det[i].requests: the error buy_token
\* returned and whether it had sent a request to the quote service.
NoDet == [pc |-> "idle", ca_address |-> "", group_name |-> "",
          buy |-> "none", tradedAtArrival |-> FALSE,
          closedAtArrival |-> FALSE, notes |-> <<>>, lost |-> {},
          sol_amount |-> 0, announced |-> 0, error |-> "", requests |-> 0]

\* mon[i].sell_error and mon[i].sell_requests: the same for the last failed
\* sell_token.

NoMon == [pc |-> "none", token_address |-> "", entry_price |-> 0,
          token_amount |-> 0, sell_amount |-> 0, take_profit_price |-> 0,
          elapsed_time |-> 0, current_price |-> 0, sell_price |-> 0,
          bought |-> 0, sold |-> 0, pct0 |-> 0, n_executed |-> 0, n_failed |-> 0,
          reached |-> FALSE, lost_executed |-> 0, lost_failed |-> 0,
          profit |-> 0, sell_error |-> "", sell_requests |-> 0]

\* No call of get_balance has been made.
NoBalance == [outcome |-> "none", value |-> 0, info |-> 0, response |-> 0]

\* The settings and the coroutines after construction with the default
\* settings file.
InitSettings ==
    /\ traded_tokens = <<>>
    /\ take_profit_percentage = DefaultTakeProfit
    /\ sell_percentage = DefaultSellPercentage
    /\ initial_investment = DefaultInvestment
    /\ saved_settings = Snapshot(DefaultInvestment, DefaultTakeProfit,
                                 DefaultSellPercentage, <<>>)
    /\ det = [i \in DetIds |-> NoDet]
    /\ mon = [i \in DetIds |-> NoMon]
    /\ balance = NoBalance

\* No message is being handled.
NoMessage == [pc |-> "idle", forward |-> FALSE, reply_to |-> FALSE,
              addresses |-> <<>>, calls |-> <<>>]

\* The listener after run() with both groups in monitored_groups.txt, both
\* resolved by start(); the messages of the groups are the detections of
\* the pipeline and are not handled one by one.
InitMonitoring ==
    /\ monitored_groups = <<"https://t.me/alpha", "https://t.me/beta">>
    /\ listener_groups = GroupLinks
    /\ adding = {}
    /\ running = TRUE
    /\ handler = NoMessage
    /\ messages_left = 0

\* The wallets after construction with a wallet file and no wallet list: the
\* wallet is migrated into the list as the active one, and the trader loads
\* its key.
InitOneWallet ==
    /\ wallets = <<1>>
    /\ active_wallet_index = 0
    /\ wallet_info = 1
    /\ trader_wallet_info = 1
    /\ keypair = 1

\* The wallets after construction with no wallet file and no wallet list.
InitNoWallet ==
    /\ wallets = <<>>
    /\ active_wallet_index = -1
    /\ wallet_info = 0
    /\ trader_wallet_info = 0
    /\ keypair = 0

\* The bot with one wallet, once the user has sent /start, while Telegram
\* accepts every message.
InitBot ==
    /\ InitSettings
    /\ InitMonitoring
    /\ InitOneWallet
    /\ user_chat_id = TRUE
    /\ send_failures_left = 0

\* Several detections, monitors that share a short supply of price answers.
Init ==
    /\ InitBot
    /\ detections_left = MaxDetections
    /\ polls_left = MaxSharedPolls

\* One detection, whose monitor can run to the end of its monitoring time.
InitPosition ==
    /\ InitBot
    /\ detections_left = 1
    /\ polls_left = MaxTicks

\* Several detections whose monitors can each be answered a price.
InitPair ==
    /\ InitBot
    /\ detections_left = MaxDetections
    /\ polls_left = MaxPairPolls

\* Several detections of a bot with one wallet right after construction:
\* /start has not run, so no notification has a destination.
InitFailures ==
    /\ InitSettings
    /\ InitMonitoring
    /\ InitOneWallet
    /\ user_chat_id = FALSE
    /\ send_failures_left = 0
    /\ detections_left = MaxDetections
    /\ polls_left = MaxPairPolls

\* One detection of a bot with one wallet right after construction: /start
\* has not run yet, and Telegram may fail some of the messages.
InitNotify ==
    /\ InitSettings
    /\ InitMonitoring
    /\ InitOneWallet
    /\ user_chat_id = FALSE
    /\ send_failures_left = MaxSendFailures
    /\ detections_left = 1
    /\ polls_left = MaxNotifyPolls

\* A bot without wallets right after construction; no detection arrives.
InitWallets ==
    /\ InitSettings
    /\ InitMonitoring
    /\ InitNoWallet
    /\ user_chat_id = FALSE
    /\ send_failures_left = 0
    /\ detections_left = 0
    /\ polls_left = 0

\* One detection, whose monitor has the short supply of price answers.
InitOneDetection ==
    /\ InitBot
    /\ detections_left = 1
    /\ polls_left = MaxSharedPolls

\* Several detections of a registered bot that was constructed without a
\* wallet file: the trader has no signing key.
InitNoKey ==
    /\ InitSettings
    /\ InitMonitoring
    /\ InitNoWallet
    /\ user_chat_id = TRUE
    /\ send_failures_left = 0
    /\ detections_left = MaxDetections
    /\ polls_left = MaxSharedPolls

\* A bot with one wallet and an empty monitored_groups.txt after run(): the
\* listener is running if credentials.txt holds the API id and hash, and not
\* running if it holds the bot token only.  No detection is in progress.
InitListener ==
    /\ InitSettings
    /\ InitOneWallet
    /\ user_chat_id = TRUE
    /\ send_failures_left = 0
    /\ detections_left = 0
    /\ polls_left = 0
    /\ monitored_groups = <<>>
    /\ listener_groups = {}
    /\ adding = {}
    /\ running \in BOOLEAN
    /\ handler = NoMessage
    /\ messages_left = MaxMessages

\* Token identifiers and channel names are opaque, so the first detection of
\* a run names TOKENA and comes from Alpha; TOKENB is detected only after
\* TOKENA has been, and Beta reports only after Alpha has.
FreshInOrder(ca, group) ==
    /\ ca = "TOKENB" => \E j \in DetIds : det[j].ca_address = "TOKENA"
    /\ group = "Beta" => \E j \in DetIds : det[j].group_name = "Alpha"

\* ---------------------------------------------------- process_new_ca ----
\* The faulty variant of Detect that tests the traded list first and skips a
\* traded token without the "New Token Detected" notification.
DetectCheckFirst(i, ca, group) ==
    /\ det[i].pc = "idle"
    /\ \A j \in DetIds : j < i => det[j].pc # "idle"
    /\ detections_left > 0
    /\ detections_left' = detections_left - 1
    /\ FreshInOrder(ca, group)
    /\ LET traded == \E k \in DOMAIN traded_tokens : traded_tokens[k] = ca
       IN  det' = [det EXCEPT ![i] =
                     [NoDet EXCEPT !.pc = IF traded THEN "done"
                                          ELSE "notify_detected",
                                   !.ca_address = ca, !.group_name = group,
                                   !.tradedAtArrival = traded,
                                   !.notes = IF traded THEN <<"skipped">>
                                             ELSE <<"detected">>]]
    /\ UNCHANGED <<listenerVars, balance, initial_investment, saved_settings,
                   traded_tokens, take_profit_percentage, sell_percentage, mon,
                   polls_left,
                   user_chat_id, walletVars, send_failures_left>>

\* The listener delivers a detection: process_new_ca starts, logs, and awaits
\* the "New Token Detected" notification.
Detect(i, ca, group) ==
    /\ det[i].pc = "idle"
    /\ \A j \in DetIds : j < i => det[j].pc # "idle"
    /\ detections_left > 0
    /\ detections_left' = detections_left - 1
    /\ FreshInOrder(ca, group)
    /\ \E ok \in SendOutcomes :
         /\ det' = [det EXCEPT ![i] =
                      [pc |-> AfterNotify(user_chat_id, ok, "notify_detected"),
                       ca_address |-> ca, group_name |-> group, buy |-> "none",
                       tradedAtArrival |->
                           \E k \in DOMAIN traded_tokens : traded_tokens[k] = ca,
                       closedAtArrival |->
                           \E j \in DetIds : /\ mon[j].token_address = ca
                                              /\ mon[j].pc = "done",
                       notes |-> <<"detected">>,
                       lost |-> IF Delivered(user_chat_id, ok) THEN {}
                                ELSE {"detected"},
                       sol_amount |-> 0, announced |-> 0,
                       error |-> "", requests |-> 0]]
         /\ send_failures_left' = SendFailuresAfter(ok)
    /\ UNCHANGED <<listenerVars, balance, initial_investment, saved_settings,
                   traded_tokens, take_profit_percentage, sell_percentage, mon,
                   polls_left, user_chat_id, walletVars>>

\* The faulty variant of CheckTraded without the `return` after the skip
\* notification: a traded token is reported as skipped and bought again.
CheckTradedBuysAnyway(i) ==
    /\ det[i].pc = "notify_detected"
    /\ IF AlreadyTraded(det[i].ca_address)
       THEN \E ok \in SendOutcomes :
              /\ det' = [det EXCEPT
                           ![i].pc = AfterNotify(user_chat_id, ok, "buying"),
                           ![i].buy = "pending",
                           ![i].sol_amount = initial_investment,
                           ![i].notes = Append(@, "skipped"),
                           ![i].lost = IF Delivered(user_chat_id, ok) THEN @
                                       ELSE @ \cup {"skipped"}]
              /\ send_failures_left' = SendFailuresAfter(ok)
       ELSE /\ det' = [det EXCEPT ![i].pc = "buying", ![i].buy = "pending",
                                    ![i].sol_amount = initial_investment]
            /\ UNCHANGED send_failures_left
    /\ UNCHANGED <<listenerVars, balance, initial_investment, saved_settings,
                   traded_tokens, take_profit_percentage, sell_percentage, mon,
                   detections_left, polls_left, user_chat_id, walletVars>>

\* The notification returned: the membership check, then either the skip
\* notification, after which the coroutine returns, or the call of buy_token.
\* Nothing is read or written between the call of a last notification and
\* the return of the coroutine, so the model ends the coroutine with it.
CheckTraded(i) ==
    /\ det[i].pc = "notify_detected"
    /\ IF AlreadyTraded(det[i].ca_address)
       THEN \E ok \in SendOutcomes :
              /\ det' = [det EXCEPT
                           ![i].pc = AfterNotify(user_chat_id, ok, "done"),
                           ![i].notes = Append(@, "skipped"),
                           ![i].lost = IF Delivered(user_chat_id, ok) THEN @
                                       ELSE @ \cup {"skipped"}]
              /\ send_failures_left' = SendFailuresAfter(ok)
       ELSE /\ det' = [det EXCEPT ![i].pc = "buying", ![i].buy = "pending",
                                    ![i].sol_amount = initial_investment]
            /\ UNCHANGED send_failures_left
    /\ UNCHANGED <<listenerVars, balance, initial_investment, saved_settings,
                   traded_tokens, take_profit_percentage, sell_percentage, mon,
                   detections_left, polls_left, user_chat_id, walletVars>>

\* What process_new_ca does, in the order of its statements, once buy_token
\* has returned success: the append to the traded list, the save of the
\* settings, the creation of the monitor task, the "New Token Trade"
\* notification.  The first definition is the faulty variant that notifies
\* before it records.
OpenedLogNotifyFirst == <<"opened", "inserted", "saved", "spawned">>
OpenedLog == <<"inserted", "saved", "spawned", "opened">>

\* buy_token, which fails at once without a signing key (`if not
\* self.keypair`), returned success with `amount` tokens: the token is appended to
\* the traded list, the settings are saved, the monitor task is created, and
\* the "New Token Trade" notification is sent.  No await lies between these
\* statements; det[i].notes records their order.
BuySucceeded(i, amount) ==
    /\ det[i].pc = "buying"
    /\ keypair # 0
    /\ traded_tokens' = RecordTraded(traded_tokens, det[i].ca_address)
    /\ mon' = [mon EXCEPT ![i] =
                 [NoMon EXCEPT !.pc = "start",
                               !.token_address = det[i].ca_address,
                               !.entry_price =
                                   PricePerToken(det[i].sol_amount, amount),
                               !.token_amount = amount * 100,
                               !.bought = amount * 100]]
    /\ \E ok \in SendOutcomes :
         /\ det' = [det EXCEPT
                      ![i].pc = AfterNotify(user_chat_id, ok, "done"),
                      ![i].buy = "ok",
                      ![i].requests = 1,
                      ![i].announced = take_profit_percentage,
                      ![i].notes = @ \o OpenedLog,
                      ![i].lost = IF Delivered(user_chat_id, ok) THEN @
                                  ELSE @ \cup {"opened"}]
         /\ send_failures_left' = SendFailuresAfter(ok)
    /\ saved_settings' = Snapshot(initial_investment, take_profit_percentage,
                                  sell_percentage, traded_tokens')
    /\ UNCHANGED <<listenerVars, balance, initial_investment,
                   take_profit_percentage, sell_percentage, detections_left,
                   polls_left, user_chat_id, walletVars>>

\* The faulty variant of BuyFailed that records the token as traded although
\* the buy failed.
BuyFailedRecorded(i) ==
    /\ det[i].pc = "buying"
    /\ traded_tokens' = RecordTraded(traded_tokens, det[i].ca_address)
    /\ det' = [det EXCEPT ![i].pc = "done", ![i].buy = "fail",
                          ![i].notes = Append(@, "failed")]
    /\ saved_settings' = Snapshot(initial_investment, take_profit_percentage,
                                  sell_percentage, traded_tokens')
    /\ UNCHANGED <<listenerVars, balance, initial_investment,
                   take_profit_percentage, sell_percentage, mon,
                   detections_left, polls_left,
                   user_chat_id, walletVars, send_failures_left>>

\* buy_token returned {'success': False, ...}: no signing key, a quote or
\* swap error, or an exception.  The "Trade Failed" notification is sent.
BuyFailed(i) ==
    /\ det[i].pc = "buying"
    /\ \E ok \in SendOutcomes :
         /\ det' = [det EXCEPT
                      ![i].pc = AfterNotify(user_chat_id, ok, "done"),
                      ![i].buy = "fail",
                      ![i].error = BuyFailure(keypair).error,
                      ![i].requests = BuyFailure(keypair).requests,
                      ![i].notes = Append(@, "failed"),
                      ![i].lost = IF Delivered(user_chat_id, ok) THEN @
                                  ELSE @ \cup {"failed"}]
         /\ send_failures_left' = SendFailuresAfter(ok)
    /\ UNCHANGED <<listenerVars, balance, initial_investment, saved_settings,
                   traded_tokens, take_profit_percentage, sell_percentage, mon,
                   detections_left, polls_left, user_chat_id, walletVars>>

\* ------------------------------------------------------ set_take_profit ----
\* The faulty variant of SetTakeProfit that also moves the target of every
\* running monitor to the new percentage.
SetTakeProfitRetargets(profit, sell) ==
    /\ ~InvalidTakeProfitArgs(profit, sell)
    /\ take_profit_percentage' = profit
    /\ sell_percentage' = sell
    /\ saved_settings' = Snapshot(initial_investment, profit, sell,
                                  traded_tokens)
    /\ mon' = [i \in DetIds |->
                 IF mon[i].pc \in {"none", "start", "done"} THEN mon[i]
                 ELSE [mon[i] EXCEPT !.take_profit_price =
                           InitialTakeProfit(mon[i].entry_price, profit)]]
    /\ UNCHANGED <<listenerVars, balance, initial_investment,
                   traded_tokens, det, detections_left, polls_left,
                   user_chat_id, walletVars, send_failures_left>>

\* /set_take_profit with two arguments that float() accepts: both values
\* are stored and the settings are saved, unless the range test rejects
\* them.
SetTakeProfit(profit, sell) ==
    /\ IF InvalidTakeProfitArgs(profit, sell)
       THEN UNCHANGED <<take_profit_percentage, sell_percentage,
                        saved_settings>>
       ELSE /\ take_profit_percentage' = profit
            /\ sell_percentage' = sell
            /\ saved_settings' = Snapshot(initial_investment, profit, sell,
                                          traded_tokens)
    /\ UNCHANGED <<listenerVars, balance, initial_investment,
                   traded_tokens, det, mon, detections_left, polls_left,
                   user_chat_id, walletVars, send_failures_left>>

\* ------------------------------------------------------- set_investment ----
\* The faulty variant of SetInvestment without the call of
\* _save_trading_settings.
SetInvestmentUnsaved(amount) ==
    /\ IF InvalidInvestmentArg(amount)
       THEN UNCHANGED initial_investment
       ELSE initial_investment' = amount
    /\ UNCHANGED <<listenerVars, balance, saved_settings, traded_tokens,
                   take_profit_percentage, sell_percentage,
                   det, mon, detections_left, polls_left,
                   user_chat_id, walletVars, send_failures_left>>

\* /set_investment with an argument that float() accepts: the amount is
\* stored and the settings are saved, unless the range test rejects it.
SetInvestment(amount) ==
    /\ IF InvalidInvestmentArg(amount)
       THEN UNCHANGED <<initial_investment, saved_settings>>
       ELSE /\ initial_investment' = amount
            /\ saved_settings' = Snapshot(amount, take_profit_percentage,
                                          sell_percentage, traded_tokens)
    /\ UNCHANGED <<listenerVars, balance, traded_tokens, take_profit_percentage, sell_percentage,
                   det, mon, detections_left, polls_left,
                   user_chat_id, walletVars, send_failures_left>>

\* ---------------------------------------------------------------- start ----
\* /start stores the chat of the caller as the destination of notifications.
StartCommand ==
    /\ user_chat_id' = TRUE
    /\ UNCHANGED <<listenerVars, balance, initial_investment, saved_settings,
                   traded_tokens, take_profit_percentage, sell_percentage, det,
                   mon, walletVars, detections_left, polls_left,
                   send_failures_left>>

\* -------------------------------------------------------------- wallets ----
\* _get_active_wallet: the wallet at the active index, or None.
GetActiveWallet(ws, idx) ==
    IF idx >= 0 /\ Len(ws) > idx THEN ws[idx + 1] ELSE 0

\* /create_wallet: create_new_wallet draws a fresh key, which becomes the
\* trader's keypair and wallet_info; the wallet is appended and made the
\* active one, and the bot's wallet_info follows.
CreateWalletCommand ==
    /\ Len(wallets) < MaxWallets
    /\ LET new_wallet == Len(wallets) + 1 IN
         /\ keypair' = new_wallet
         /\ wallets' = Append(wallets, new_wallet)
         /\ active_wallet_index' = Len(wallets) + 1 - 1
         /\ trader_wallet_info' = new_wallet
         /\ wallet_info' = new_wallet
    /\ UNCHANGED <<listenerVars, balance, initial_investment, saved_settings,
                   traded_tokens, take_profit_percentage, sell_percentage, det,
                   mon, user_chat_id, detections_left, polls_left,
                   send_failures_left>>

\* The "Create Wallet" button: create_new_wallet draws a fresh key, which
\* becomes the trader's keypair; the wallet is appended, made active only if
\* it is the first one, and the trader's wallet_info is set to the active
\* wallet.  The bot's wallet_info is not assigned.
CreateWalletButton ==
    /\ Len(wallets) < MaxWallets
    /\ LET new_wallet == Len(wallets) + 1
           appended == Append(wallets, new_wallet)
           index == IF Len(appended) = 1 THEN 0 ELSE active_wallet_index
       IN  /\ keypair' = new_wallet
           /\ wallets' = appended
           /\ active_wallet_index' = index
           /\ trader_wallet_info' = GetActiveWallet(appended, index)
    /\ UNCHANGED <<listenerVars, balance, initial_investment, saved_settings,
                   traded_tokens, take_profit_percentage, sell_percentage, det,
                   mon, user_chat_id, wallet_info, detections_left, polls_left,
                   send_failures_left>>

\* The faulty variant of SelectWallet that accepts the index one past the
\* end of the list.
SelectWalletInclusive(wallet_index) ==
    /\ IF wallet_index >= 0 /\ wallet_index <= Len(wallets)
       THEN /\ active_wallet_index' = wallet_index
            /\ trader_wallet_info' = GetActiveWallet(wallets, wallet_index)
            /\ wallet_info' = GetActiveWallet(wallets, wallet_index)
       ELSE UNCHANGED <<active_wallet_index, trader_wallet_info, wallet_info>>
    /\ UNCHANGED <<listenerVars, balance, initial_investment, saved_settings,
                   traded_tokens, take_profit_percentage, sell_percentage, det,
                   mon, user_chat_id, wallets, keypair, detections_left,
                   polls_left, send_failures_left>>

\* The select_wallet_<index> button: an index inside the list becomes the
\* active one and both wallet_info records are set to that wallet; the
\* trader's keypair is not assigned.  Any other index changes nothing.
SelectWallet(wallet_index) ==
    /\ IF wallet_index >= 0 /\ wallet_index < Len(wallets)
       THEN /\ active_wallet_index' = wallet_index
            /\ trader_wallet_info' = wallets[wallet_index + 1]
            /\ wallet_info' = wallets[wallet_index + 1]
       ELSE UNCHANGED <<active_wallet_index, trader_wallet_info, wallet_info>>
    /\ UNCHANGED <<listenerVars, balance, initial_investment, saved_settings,
                   traded_tokens, take_profit_percentage, sell_percentage, det,
                   mon, user_chat_id, wallets, keypair, detections_left,
                   polls_left, send_failures_left>>

\* The faulty variant of get_balance without the try block: a failing
\* request is raised to the caller.
GetBalanceUncaught(info, response) ==
    IF info = 0 THEN [outcome |-> "returned", value |-> 0]
    ELSE IF response = RequestFailed THEN [outcome |-> "raised", value |-> 0]
    ELSE [outcome |-> "returned", value |-> response \div LamportsPerSol]

\* get_balance of a trader whose wallet_info is `info`, the balance request
\* giving `response`: 0 without a wallet, 0 when anything inside the try
\* block raises, else the balance in SOL.
GetBalanceResult(info, response) ==
    IF info = 0 THEN [outcome |-> "returned", value |-> 0]
    ELSE IF response = RequestFailed THEN [outcome |-> "returned", value |-> 0]
    ELSE [outcome |-> "returned", value |-> response \div LamportsPerSol]

\* A call of solana_trader.get_balance; `balance` keeps what the call was
\* given and how it ended.  The method reads self.wallet_info and
\* self.client and assigns nothing.
GetBalance(response) ==
    /\ LET result == GetBalanceResult(trader_wallet_info, response)
       IN  balance' = [outcome |-> result.outcome, value |-> result.value,
                       info |-> trader_wallet_info, response |-> response]
    /\ UNCHANGED <<listenerVars, initial_investment, saved_settings,
                   traded_tokens, take_profit_percentage, sell_percentage,
                   det, mon, detections_left, polls_left, user_chat_id,
                   walletVars, send_failures_left>>

\* -------------------------------------------------- monitor_token_price ----
\* The `while elapsed_time < max_monitoring_time` test and, inside the loop,
\* the call of get_token_price; the first definition is the faulty variant
\* with <= for <.
LoopOrEndInclusive(m) ==
    IF m.elapsed_time <= max_monitoring_time
    THEN [m EXCEPT !.pc = "poll"]
    ELSE [m EXCEPT !.pc = "done"]
LoopOrEnd(m) ==
    IF m.elapsed_time < max_monitoring_time
    THEN [m EXCEPT !.pc = "poll"]
    ELSE [m EXCEPT !.pc = "done"]

\* The task runs for the first time: target and sell amount are computed
\* from the settings as they are now, and the loop is entered.
MonitorStart(i) ==
    /\ mon[i].pc = "start"
    /\ mon' = [mon EXCEPT ![i] =
                 LoopOrEnd([@ EXCEPT
                    !.take_profit_price =
                        InitialTakeProfit(mon[i].entry_price, take_profit_percentage),
                    !.sell_amount = SellAmount(mon[i].token_amount, sell_percentage),
                    !.pct0 = sell_percentage,
                    !.elapsed_time = 0])]
    /\ UNCHANGED <<listenerVars, balance, initial_investment, saved_settings,
                   traded_tokens, take_profit_percentage, sell_percentage, det,
                   detections_left, polls_left,
                   user_chat_id, walletVars, send_failures_left>>

\* The faulty variant of PriceReturned for a get_token_price without its
\* try block: a failed price request is raised into the monitor and ends it.
PriceReturnedRaises(i, price) ==
    /\ mon[i].pc = "poll"
    /\ polls_left > 0
    /\ polls_left' = polls_left - 1
    /\ mon' = [mon EXCEPT ![i] =
                 [@ EXCEPT !.current_price = price,
                           !.reached =
                               @ \/ price * 1000 >= mon[i].take_profit_price,
                           !.pc = IF price = 0 THEN "done"
                                  ELSE IF Triggered(price, mon[i].take_profit_price)
                                  THEN "selling" ELSE "sleep"]]
    /\ UNCHANGED <<listenerVars, balance, initial_investment, saved_settings,
                   traded_tokens, take_profit_percentage, sell_percentage, det,
                   detections_left,
                   user_chat_id, walletVars, send_failures_left>>

\* The faulty variant of PriceReturned in which a price request is answered
\* only while no other monitor is inside sell_token, as if the swap call
\* held the event loop.
PriceReturnedSerial(i, price) ==
    /\ mon[i].pc = "poll"
    /\ \A j \in DetIds : j # i => mon[j].pc # "selling"
    /\ polls_left > 0
    /\ polls_left' = polls_left - 1
    /\ mon' = [mon EXCEPT ![i] =
                 [@ EXCEPT !.current_price = price,
                           !.reached =
                               @ \/ price * 1000 >= mon[i].take_profit_price,
                           !.pc = IF Triggered(price, mon[i].take_profit_price)
                                  THEN "selling" ELSE "sleep"]]
    /\ UNCHANGED <<listenerVars, balance, initial_investment, saved_settings,
                   traded_tokens, take_profit_percentage, sell_percentage, det,
                   detections_left,
                   user_chat_id, walletVars, send_failures_left>>

\* get_token_price returned `price` (0 on any error): the trigger test, then
\* either the call of sell_token or the poll wait.  `reached` records that
\* some polled price has been at or above the target of its tick.
PriceReturned(i, price) ==
    /\ mon[i].pc = "poll"
    /\ polls_left > 0
    /\ polls_left' = polls_left - 1
    /\ mon' = [mon EXCEPT ![i] =
                 [@ EXCEPT !.current_price = price,
                           !.reached =
                               @ \/ price * 1000 >= mon[i].take_profit_price,
                           !.pc = IF Triggered(price, mon[i].take_profit_price)
                                  THEN "selling" ELSE "sleep"]]
    /\ UNCHANGED <<listenerVars, balance, initial_investment, saved_settings,
                   traded_tokens, take_profit_percentage, sell_percentage, det,
                   detections_left,
                   user_chat_id, walletVars, send_failures_left>>

\* sell_token, which fails at once without a signing key, returned success
\* at `price`: the profit is calculated and the "Take Profit Executed"
\* notification, which carries it, is awaited.
SellSucceeded(i, price) ==
    /\ mon[i].pc = "selling"
    /\ keypair # 0
    /\ \E ok \in SendOutcomes :
         /\ mon' = [mon EXCEPT ![i] =
                      [@ EXCEPT
                         !.sell_price = price,
                         !.current_price = 0,
                         !.sold = @ + mon[i].sell_amount,
                         !.profit =
                             Profit(ExitPrice(price, mon[i].current_price),
                                    mon[i].entry_price, mon[i].sell_amount),
                         !.n_executed = @ + 1,
                         !.lost_executed =
                             IF Delivered(user_chat_id, ok) THEN @ ELSE @ + 1,
                         !.pc = AfterNotify(user_chat_id, ok, "notify_executed")]]
         /\ send_failures_left' = SendFailuresAfter(ok)
    /\ UNCHANGED <<listenerVars, balance, initial_investment, saved_settings,
                   traded_tokens, take_profit_percentage, sell_percentage, det,
                   detections_left, polls_left, user_chat_id, walletVars>>

\* The faulty variant of SellFailed that books the failed sell as if it had
\* been executed: the quantity is reduced and the target trails.
SellFailedBooked(i) ==
    /\ mon[i].pc = "selling"
    /\ mon' = [mon EXCEPT ![i] =
                 [@ EXCEPT !.n_failed = @ + 1, !.current_price = 0,
                           !.token_amount = RemainingAfter(@, mon[i].sell_amount),
                           !.take_profit_price = Trail(mon[i].current_price, @),
                           !.pc = "sleep"]]
    /\ UNCHANGED <<listenerVars, balance, initial_investment, saved_settings,
                   traded_tokens, take_profit_percentage, sell_percentage, det,
                   detections_left, polls_left,
                   user_chat_id, walletVars, send_failures_left>>

\* The faulty variant of SellFailed in which the failure ends every monitor,
\* as if it were raised into a group of tasks that is cancelled as a whole.
SellFailedStopsAll(i) ==
    /\ mon[i].pc = "selling"
    /\ mon' = [j \in DetIds |->
                 IF j = i
                 THEN [mon[j] EXCEPT !.n_failed = @ + 1, !.current_price = 0,
                                     !.pc = "done"]
                 ELSE IF mon[j].pc = "none" THEN mon[j]
                      ELSE [mon[j] EXCEPT !.pc = "done"]]
    /\ UNCHANGED <<listenerVars, balance, initial_investment, saved_settings,
                   traded_tokens, take_profit_percentage, sell_percentage, det,
                   detections_left, polls_left,
                   user_chat_id, walletVars, send_failures_left>>

\* sell_token returned {'success': False, ...}: the "Take Profit Failed"
\* notification is sent and the poll wait follows; nothing is read or written
\* between the two awaits.
SellFailed(i) ==
    /\ mon[i].pc = "selling"
    /\ \E ok \in SendOutcomes :
         /\ mon' = [mon EXCEPT ![i] =
                      [@ EXCEPT
                         !.n_failed = @ + 1,
                         !.current_price = 0,
                         !.sell_error = SellFailure(keypair).error,
                         !.sell_requests = SellFailure(keypair).requests,
                         !.lost_failed =
                             IF Delivered(user_chat_id, ok) THEN @ ELSE @ + 1,
                         !.pc = AfterNotify(user_chat_id, ok, "sleep")]]
         /\ send_failures_left' = SendFailuresAfter(ok)
    /\ UNCHANGED <<listenerVars, balance, initial_investment, saved_settings,
                   traded_tokens, take_profit_percentage, sell_percentage, det,
                   detections_left, polls_left, user_chat_id, walletVars>>

\* The "Take Profit Executed" notification returned: stop if the sell
\* percentage is 100 or more, else reduce the position, trail the target and
\* start the poll wait.
AfterExecuted(i) ==
    /\ mon[i].pc = "notify_executed"
    /\ mon' = [mon EXCEPT ![i] =
                 IF SoldEverything(sell_percentage)
                 THEN [@ EXCEPT !.pc = "done"]
                 ELSE [@ EXCEPT
                         !.token_amount = RemainingAfter(@, mon[i].sell_amount),
                         !.take_profit_price =
                             Trail(mon[i].sell_price, @),
                         !.pc = "sleep"]]
    /\ UNCHANGED <<listenerVars, balance, initial_investment, saved_settings,
                   traded_tokens, take_profit_percentage, sell_percentage, det,
                   detections_left, polls_left,
                   user_chat_id, walletVars, send_failures_left>>

\* asyncio.sleep returned: the elapsed time advances and the loop test runs.
\* current_price and sell_result are overwritten before they are read again:
\* the model clears current_price once sell_token has returned, and both here.
Wake(i) ==
    /\ mon[i].pc = "sleep"
    /\ mon' = [mon EXCEPT ![i] =
                 LoopOrEnd([@ EXCEPT !.elapsed_time = @ + monitoring_interval,
                                     !.current_price = 0,
                                     !.sell_price = 0])]
    /\ UNCHANGED <<listenerVars, balance, initial_investment, saved_settings,
                   traded_tokens, take_profit_percentage, sell_percentage, det,
                   detections_left, polls_left,
                   user_chat_id, walletVars, send_failures_left>>

\* ------------------------------------------------------------ listener ----
\* The settings, positions and wallets, which the listener and the group
\* commands leave alone.
botVars == <<traded_tokens, take_profit_percentage, sell_percentage,
             initial_investment, saved_settings, det, mon, user_chat_id,
             walletVars, detections_left, polls_left, send_failures_left,
             balance>>

\* A monitored group posts a new message: message_handler returns at once
\* for a forward or a reply and for a text without an address, else it
\* awaits get_chat.
NewMessage(forward, reply_to, addresses) ==
    /\ running
    /\ listener_groups # {}
    /\ handler.pc \in {"idle", "returned", "raised"}
    /\ messages_left > 0
    /\ messages_left' = messages_left - 1
    /\ handler' = [pc |-> IF forward \/ reply_to \/ addresses = <<>>
                          THEN "returned" ELSE "get_chat",
                   forward |-> forward, reply_to |-> reply_to,
                   addresses |-> addresses,
                   calls |-> [k \in 1..Len(addresses) |-> 0]]
    /\ UNCHANGED <<botVars, monitored_groups, listener_groups, adding, running>>

\* get_chat returned: the loop over the addresses begins with the first
\* one, for which the callback is awaited.
GotChat ==
    /\ handler.pc = "get_chat"
    /\ handler' = [handler EXCEPT !.pc = "callback"]
    /\ UNCHANGED <<botVars, monitored_groups, listener_groups, adding, running,
                   messages_left>>

\* The callback for the first address returned.  The next statement reads
\* self.get_token_info, which TelegramListener does not define: the
\* AttributeError ends the handler before the second call of the callback
\* and before the next address.
CallbackReturned ==
    /\ handler.pc = "callback"
    /\ handler' = [handler EXCEPT !.calls[1] = @ + 1, !.pc = "raised"]
    /\ UNCHANGED <<botVars, monitored_groups, listener_groups, adding, running,
                   messages_left>>

\* /add_group with a valid link: a link not yet in the list is appended and
\* the list saved; then the listener's add_group returns at once if the
\* listener is not running, else it awaits get_entity.
AddGroup(group_link) ==
    /\ group_link \notin adding
    /\ IF \E k \in DOMAIN monitored_groups : monitored_groups[k] = group_link
       THEN UNCHANGED <<monitored_groups, adding>>
       ELSE /\ monitored_groups' = Append(monitored_groups, group_link)
            /\ adding' = IF running THEN adding \cup {group_link} ELSE adding
    /\ UNCHANGED <<botVars, listener_groups, running, handler, messages_left>>

\* get_entity returned the group (ok), which is added to the listener's set,
\* or raised, which add_group logs.
EntityResolved(group_link, ok) ==
    /\ group_link \in adding
    /\ adding' = adding \ {group_link}
    /\ listener_groups' = IF ok THEN listener_groups \cup {group_link}
                          ELSE listener_groups
    /\ UNCHANGED <<botVars, monitored_groups, running, handler, messages_left>>

\* The remove button of a group: a link in the list is removed and the list
\* saved; then the listener's remove_group returns at once if the listener
\* is not running, else it removes the group from its set if it is there.
RemoveGroup(group_to_remove) ==
    /\ IF \E k \in DOMAIN monitored_groups : monitored_groups[k] = group_to_remove
       THEN /\ monitored_groups' =
                  SelectSeq(monitored_groups, LAMBDA g : g # group_to_remove)
            /\ listener_groups' = IF running
                                  THEN listener_groups \ {group_to_remove}
                                  ELSE listener_groups
       ELSE UNCHANGED <<monitored_groups, listener_groups>>
    /\ UNCHANGED <<botVars, adding, running, handler, messages_left>>

\* The messages of the monitored groups and the group commands of the user.
Listening ==
    \/ \E f \in BOOLEAN, r \in BOOLEAN, a \in AddressLists : NewMessage(f, r, a)
    \/ GotChat
    \/ CallbackReturned
    \/ \E g \in GroupLinks : AddGroup(g)
    \/ \E g \in GroupLinks, ok \in BOOLEAN : EntityResolved(g, ok)
    \/ \E g \in GroupLinks : RemoveGroup(g)

SpecListener == InitListener /\ [][Listening]_vars

\* The steps of the detections and of the monitors.
Pipeline ==
    \/ \E i \in DetIds, ca \in Tokens, g \in Groups : Detect(i, ca, g)
    \/ \E i \in DetIds : CheckTraded(i)
    \/ \E i \in DetIds, a \in Amounts : BuySucceeded(i, a)
    \/ \E i \in DetIds : BuyFailed(i)
    \/ \E i \in DetIds : MonitorStart(i)
    \/ \E i \in DetIds, p \in PolledPrices : PriceReturned(i, p)
    \/ \E i \in DetIds, p \in ExecPrices : SellSucceeded(i, p)
    \/ \E i \in DetIds : SellFailed(i)
    \/ \E i \in DetIds : AfterExecuted(i)
    \/ \E i \in DetIds : Wake(i)

Next ==
    \/ Pipeline
    \/ \E p \in ProfitArgs, s \in SellArgs : SetTakeProfit(p, s)
    \/ StartCommand

\* The commands and buttons of the user while no detection arrives.
Commands ==
    \/ CreateWalletCommand
    \/ CreateWalletButton
    \/ \E n \in SelectArgs : SelectWallet(n)
    \/ \E p \in ProfitArgs \cup {NaN}, s \in SellArgs \cup {NaN} :
           SetTakeProfit(p, s)
    \/ \E a \in InvestmentArgs \cup {NaN} : SetInvestment(a)
    \/ StartCommand
    \/ \E r \in BalanceResponses : GetBalance(r)

Spec == Init /\ [][Next]_vars

SpecPosition == InitPosition /\ [][Next]_vars

\* One position while the user sends no command: the settings keep their
\* defaults (take profit 30%, sell 50%).
SpecDefaults == InitPosition /\ [][Pipeline]_vars

\* Several positions while the user sends no command.
SpecPair == InitPair /\ [][Pipeline]_vars

\* Several positions whose price requests and sells can fail and whose
\* notifications are not delivered, while the user sends no command.
SpecFailures == InitFailures /\ [][Pipeline]_vars

\* One detection, and a position that is polled as in Init, while the user
\* changes the investment and both percentages.
DetectionsWithSettings ==
    \/ Pipeline
    \/ \E p \in ProfitChanges, s \in SellChanges : SetTakeProfit(p, s)
    \/ \E a \in InvestmentArgs : SetInvestment(a)

SpecSettings == InitOneDetection /\ [][DetectionsWithSettings]_vars

\* Detections that begin while the trader has no signing key; the user may
\* create the first wallet at any moment, which loads a key.
FirstWallet == Len(wallets) = 0 /\ CreateWalletCommand

SpecNoKey == InitNoKey /\ [][Pipeline \/ FirstWallet]_vars

\* One position while the user changes both percentages between valid
\* values.
PositionWithChanges ==
    \/ Pipeline
    \/ \E p \in ProfitChanges, s \in SellChanges : SetTakeProfit(p, s)

SpecChanges == InitPosition /\ [][PositionWithChanges]_vars

\* One position of a bot that starts without a notification destination and
\* whose messages can fail.
SpecNotify == InitNotify /\ [][Next]_vars

\* The wallet list of a bot that starts without wallets.
SpecWallets == InitWallets /\ [][Commands]_vars

\* The notify_user calls a monitor has made: one per executed sell ("Take
\* Profit Executed") and one per failed sell ("Take Profit Failed"); the
\* task has no other call of notify_user.
MonitorNotifications(m) == m.n_executed + m.n_failed

\* The steps of the monitor task of detection i.
MonitorStep(i) ==
    \/ MonitorStart(i)
    \/ \E p \in PolledPrices : PriceReturned(i, p)
    \/ \E p \in ExecPrices : SellSucceeded(i, p)
    \/ SellFailed(i)
    \/ AfterExecuted(i)
    \/ Wake(i)

\* The steps of the process_new_ca coroutine of detection i after its start.
DetectionStep(i) ==
    \/ CheckTraded(i)
    \/ \E a \in Amounts : BuySucceeded(i, a)
    \/ BuyFailed(i)

\* Several detections, while the user sends no command, under the event
\* loop's scheduling: the notification
\* returns or fails inside notify_user, and buy_token returns a result or
\* times out (httpx timeout 30 s) and returns a failure, so a step of a
\* started process_new_ca that stays possible is eventually taken.
SpecDetectionsFair ==
    Init /\ [][Pipeline]_vars /\ \A i \in DetIds : WF_vars(DetectionStep(i))

\* One position under the event loop's scheduling: a created task is run,
\* asyncio.sleep returns, and get_token_price, sell_token and the
\* notification return or time out (httpx timeout 30 s), so a monitor step
\* that stays possible is eventually taken.
SpecPositionFair ==
    InitPosition /\ [][Next]_vars /\ \A i \in DetIds : WF_vars(MonitorStep(i))

\* ------------------------------------------------------------ properties --
\* What is left of the position of monitor i: bought minus executed sells.
Remaining(i) == mon[i].bought - mon[i].sold

Running(i) == mon[i].pc \notin {"none", "start", "done"}

\* C1: of all detections of one token, at most one ends in an executed buy,
\* however the detections interleave at the await of buy_token.
C1_AtMostOneBuyPerToken ==
    \A t \in Tokens :
        Cardinality({i \in DetIds : det[i].ca_address = t /\ det[i].buy = "ok"}) <= 1

\* C2: a detection that arrives when its token is already in the traded list
\* never invokes buy_token, whatever its channel and whatever has become of
\* the token's position.
C2_TradedNeverRebought ==
    \A i \in DetIds : det[i].tradedAtArrival => det[i].buy = "none"

\* C2 witness: a detection of an already traded token, arrived from another
\* channel after the token's monitor had ended, was skipped.
C2_Witness ==
    \E i \in DetIds, j \in DetIds :
        /\ det[i].tradedAtArrival /\ det[i].closedAtArrival
        /\ det[i].pc = "done" /\ det[i].notes = <<"detected", "skipped">>
        /\ det[j].buy = "ok" /\ det[j].ca_address = det[i].ca_address
        /\ det[j].group_name # det[i].group_name

\* C3: the executed sells of a position never add up to more than was bought.
C3_SoldWithinBought ==
    \A i \in DetIds : mon[i].sold <= mon[i].bought

\* C4: whenever a sell is submitted, its quantity is the remaining quantity
\* times the sell percentage / 100, the percentage being the one in force
\* now or the one in force when the monitor started.
C4_SellIsShareOfRemaining ==
    \A i \in DetIds :
        mon[i].pc = "selling" =>
            \/ mon[i].sell_amount * 100 = Remaining(i) * sell_percentage
            \/ mon[i].sell_amount * 100 = Remaining(i) * mon[i].pct0

\* C5: a position with nothing left is neither polled nor sold.
C5_NoActivityWhenEmpty ==
    \A i \in DetIds :
        (mon[i].pc \in {"poll", "selling"}) => Remaining(i) > 0

\* C6: the take-profit target of a running monitor never decreases.
C6_TargetNeverDecreases ==
    [][\A i \in DetIds :
          Running(i) => mon'[i].take_profit_price >= mon[i].take_profit_price]_vars

\* C7: the remaining quantity of a position never increases; the monitor's
\* token_amount changes only when a successful sell is booked, and the sold
\* total only when sell_token returns success.
C7_RemainingNeverIncreases ==
    [][\A i \in DetIds :
          mon[i].pc # "none" =>
            /\ mon'[i].token_amount <= mon[i].token_amount
            /\ mon'[i].bought - mon'[i].sold <= Remaining(i)
            /\ mon'[i].bought = mon[i].bought
            /\ mon'[i].token_amount # mon[i].token_amount
                   => mon[i].pc = "notify_executed"
            /\ mon'[i].sold # mon[i].sold
                   => mon[i].pc = "selling" /\ mon'[i].pc = "notify_executed"]_vars

\* C7 witness: a monitor that had a failed sell and then a successful one
\* holds less than was bought.
C7_Witness ==
    \E i \in DetIds :
        /\ mon[i].pc = "sleep" /\ mon[i].n_failed > 0
        /\ mon[i].token_amount < mon[i].bought /\ mon[i].token_amount > 0

\* C8: when a price poll returns, sell_token is called if and only if the
\* price is at or above the target, and a sell is never started otherwise.
C8_SellIffPriceAtTarget ==
    [][\A i \in DetIds :
          /\ (mon[i].pc = "poll" /\ mon'[i] # mon[i]) =>
                /\ mon'[i].pc \in {"selling", "sleep"}
                /\ mon'[i].pc = "selling" <=>
                       mon'[i].current_price * 1000 >= mon[i].take_profit_price
          /\ (mon'[i].pc = "selling" /\ mon[i].pc # "selling") =>
                mon[i].pc = "poll"]_vars

\* C8 witness: after ticks below the target, the first tick whose price is
\* exactly the target calls sell_token.
C8_Witness ==
    \E i \in DetIds :
        /\ mon[i].pc = "selling" /\ mon[i].elapsed_time > 0
        /\ mon[i].sold = 0 /\ mon[i].n_failed = 0
        /\ mon[i].current_price * 1000 = mon[i].take_profit_price

\* C9: when a successful sell does not close the position, the new target is
\* the sell's execution price times 1.10 and the monitor goes to its poll wait.
C9_TrailFromExecutionPrice ==
    [][\A i \in DetIds :
          (mon[i].pc = "notify_executed" /\ mon'[i].pc \notin {"notify_executed", "done"})
              => /\ mon'[i].take_profit_price * 10 = mon[i].sell_price * 11 * 1000
                 /\ mon'[i].pc = "sleep"]_vars

\* C9 witness: a sell executed below the target that fired it; the monitor
\* waits with the target at 1.10 times the execution price.
C9_Witness ==
    \E i \in DetIds :
        /\ mon[i].pc = "sleep" /\ mon[i].n_executed = 1
        /\ mon[i].sell_price > 0
        /\ mon[i].take_profit_price * 10 = mon[i].sell_price * 11 * 1000
        /\ mon[i].take_profit_price
               < InitialTakeProfit(mon[i].entry_price, DefaultTakeProfit)

\* C10: with the sell percentage at 100 the monitor ends when it has handled
\* a successful sell, changing nothing else, and an ended monitor never
\* polls, sells or notifies again.
C10_FullSellEndsMonitor ==
    [][\A i \in DetIds :
          /\ (mon[i].pc = "notify_executed" /\ sell_percentage = 100 /\ mon'[i] # mon[i])
                => mon'[i] = [mon[i] EXCEPT !.pc = "done"]
          /\ mon[i].pc = "done" => mon'[i] = mon[i]]_vars

\* C10 witness: a monitor started at 100% ended by its first successful
\* sell, before its monitoring time was up, with the whole position sold.
C10_Witness ==
    \E i \in DetIds :
        /\ mon[i].pc = "done" /\ mon[i].pct0 = 100 /\ sell_percentage = 100
        /\ mon[i].n_executed = 1 /\ mon[i].sold = mon[i].bought
        /\ mon[i].elapsed_time < max_monitoring_time

\* C11: a failed sell sends the "Take Profit Failed" notification and leaves
\* the target, the monitor's quantity and the sold total as they were; the
\* monitor goes to its poll wait, the wait and the next poll leave the target
\* alone, and a poll that returns a price at or above that target calls
\* sell_token again.
C11_FailedSellKeepsTargetAndRetries ==
    [][\A i \in DetIds :
          /\ (mon[i].pc = "selling" /\ mon'[i].pc \notin {"selling", "notify_executed"})
                => /\ mon'[i].pc = "sleep"
                   /\ mon'[i].n_failed = mon[i].n_failed + 1
                   /\ mon'[i].n_executed = mon[i].n_executed
                   /\ mon'[i].take_profit_price = mon[i].take_profit_price
                   /\ mon'[i].token_amount = mon[i].token_amount
                   /\ mon'[i].sold = mon[i].sold
          /\ mon[i].pc \in {"sleep", "poll"}
                => /\ mon'[i].take_profit_price = mon[i].take_profit_price
                   /\ mon'[i].token_amount = mon[i].token_amount
          /\ (mon[i].pc = "poll" /\ mon'[i] # mon[i] /\ mon[i].n_failed > 0
              /\ mon'[i].current_price * 1000 >= mon[i].take_profit_price)
                => mon'[i].pc = "selling"]_vars

\* C11 witness: after two failed sells and no executed one, a later tick at
\* the unchanged first target calls sell_token a third time.
C11_Witness ==
    \E i \in DetIds :
        /\ mon[i].pc = "selling" /\ mon[i].n_failed = 2 /\ mon[i].n_executed = 0
        /\ mon[i].elapsed_time >= 2 * monitoring_interval
        /\ mon[i].token_amount = mon[i].bought
        /\ mon[i].current_price * 1000 >= mon[i].take_profit_price

\* C12: every monitor task ends.  While it runs its elapsed time is below the
\* monitoring time, so it polls at most max_monitoring_time /
\* monitoring_interval times; it ends either when the monitoring time is up
\* or earlier, at the handling of a successful sell.
C12_MonitorTerminates ==
    /\ [](\A i \in DetIds :
             /\ Running(i) => mon[i].elapsed_time < max_monitoring_time
             /\ mon[i].elapsed_time <= max_monitoring_time
             /\ mon[i].elapsed_time % monitoring_interval = 0
             /\ mon[i].n_executed + mon[i].n_failed
                    <= mon[i].elapsed_time \div monitoring_interval + 1
             /\ (mon[i].pc = "done" /\ mon[i].elapsed_time < max_monitoring_time)
                    => mon[i].n_executed >= 1)
    /\ \A i \in DetIds : (mon[i].pc # "none") ~> (mon[i].pc = "done")

\* C12 witness: a monitor that saw a failed sell and an executed one ended
\* when its monitoring time was up, after max_monitoring_time /
\* monitoring_interval ticks.
C12_Witness ==
    \E i \in DetIds :
        /\ mon[i].pc = "done" /\ mon[i].elapsed_time = max_monitoring_time
        /\ mon[i].n_failed >= 1 /\ mon[i].n_executed >= 1

C14_NeverReachedClosesUntouched ==
    /\ [](\A i \in DetIds :
             ~mon[i].reached =>
                 /\ mon[i].pc # "selling"
                 /\ mon[i].n_executed = 0 /\ mon[i].n_failed = 0
                 /\ mon[i].sold = 0 /\ mon[i].token_amount = mon[i].bought
                 /\ mon[i].pc = "done"
                        => mon[i].elapsed_time = max_monitoring_time)
    /\ [][\A i \in DetIds :
             (mon[i].pc = "sleep" /\ mon'[i].pc = "done")
                 => /\ mon'[i].sold = mon[i].sold
                    /\ mon'[i].token_amount = mon[i].token_amount
                    /\ mon'[i].n_executed = mon[i].n_executed
                    /\ mon'[i].n_failed = mon[i].n_failed]_vars

\* C14 witness: a monitor whose polls all stayed below the target ended on
\* its monitoring time with everything it bought.
C14_Witness ==
    \E i \in DetIds :
        /\ mon[i].pc = "done" /\ ~mon[i].reached
        /\ mon[i].elapsed_time = max_monitoring_time
        /\ mon[i].bought > 0 /\ Remaining(i) = mon[i].bought

\* C15: a failed buy sends the "Trade Failed" notification and nothing else:
\* the traded list and the monitors are as before, the detection has no
\* monitor, and a detection of the same token that finds it absent from the
\* traded list calls buy_token again.
C15_FailedBuyLeavesTokenBuyable ==
    /\ [](\A i \in DetIds :
             det[i].buy = "fail" =>
                 /\ det[i].pc = "done" /\ mon[i].pc = "none"
                 /\ det[i].notes = <<"detected", "failed">>)
    /\ [][\A i \in DetIds :
             /\ (det[i].pc = "buying" /\ det'[i].buy = "fail")
                   => traded_tokens' = traded_tokens /\ mon' = mon
             /\ (/\ det[i].pc = "notify_detected" /\ det'[i].pc # "notify_detected"
                 /\ \E j \in DetIds : /\ det[j].buy = "fail"
                                      /\ det[j].ca_address = det[i].ca_address
                 /\ \A k \in DOMAIN traded_tokens :
                        traded_tokens[k] # det[i].ca_address)
                   => det'[i].pc = "buying" /\ det'[i].buy = "pending"]_vars

\* C15 witness: a token whose first buy failed is bought by a later
\* detection; only the second detection has a monitor.
C15_Witness ==
    \E i \in DetIds, j \in DetIds :
        /\ i < j /\ det[j].ca_address = det[i].ca_address
        /\ det[i].buy = "fail" /\ mon[i].pc = "none"
        /\ det[j].buy = "ok" /\ ~det[j].tradedAtArrival /\ mon[j].pc # "none"
        /\ traded_tokens = <<det[i].ca_address>>

\* C16: a successful buy records the token, saves the settings, creates the
\* monitor task and then sends the "New Token Trade" notification, in this
\* order; a detection has a monitor exactly if its buy succeeded, the task is
\* created once, and the token is in the traded list from then on.
C16_RecordSaveSpawnNotify ==
    \A i \in DetIds :
        /\ det[i].buy = "ok" <=> mon[i].pc # "none"
        /\ det[i].buy = "ok" =>
               /\ det[i].notes
                      = <<"detected", "inserted", "saved", "spawned", "opened">>
               /\ \E k \in DOMAIN traded_tokens :
                      traded_tokens[k] = det[i].ca_address
               /\ mon[i].token_address = det[i].ca_address
        /\ det[i].buy # "ok" =>
               \A n \in DOMAIN det[i].notes :
                   det[i].notes[n] \notin {"inserted", "saved", "spawned", "opened"}

\* C16 witness: of two detections one was bought and has the only monitor,
\* the other failed or was skipped.
C16_Witness ==
    \E i \in DetIds, j \in DetIds :
        /\ det[i].buy = "ok" /\ mon[i].pc = "start"
        /\ det[j].pc = "done" /\ det[j].buy # "ok" /\ mon[j].pc = "none"

\* C17: the "New Token Detected" notification is the first thing a detection
\* does: the membership check and the buy come after it.
C17_DetectedNotifiedFirst ==
    \A i \in DetIds :
        /\ det[i].pc # "idle" =>
               Len(det[i].notes) >= 1 /\ det[i].notes[1] = "detected"
        /\ det[i].pc \in {"idle", "notify_detected"} => det[i].buy = "none"
        /\ \A n \in DOMAIN det[i].notes :
               n > 1 => det[i].notes[n] # "detected"

\* C17 witness: a failed detection and the detection that then bought the
\* token both start with the "New Token Detected" notification.
C17_Witness ==
    \E i \in DetIds, j \in DetIds :
        /\ det[i].notes = <<"detected", "failed">>
        /\ det[j].notes = <<"detected">> \o OpenedLog
        /\ det[j].ca_address = det[i].ca_address

\* C20: the trader's signing key is the key of the wallet at the active
\* index (and there is none exactly when no wallet is active).
C20_SignsWithActiveWallet ==
    keypair = GetActiveWallet(wallets, active_wallet_index)

\* The notifications of a monitor that arrived.
MonitorDelivered(m) == MonitorNotifications(m) - m.lost_executed - m.lost_failed

\* C18: the notification of every failure arrives: "Trade Failed" for a
\* failed buy, "Take Profit Failed" for a failed sell, and one for a price
\* request that failed (a poll that returns 0), also while no /start has
\* stored a destination.
C18_EveryFailureIsDelivered ==
    /\ [](\A i \in DetIds :
             /\ det[i].buy = "fail" => "failed" \notin det[i].lost
             /\ mon[i].lost_failed = 0)
    /\ [][\A i \in DetIds :
             (mon[i].pc = "poll" /\ mon'[i] # mon[i] /\ mon'[i].current_price = 0)
                 => MonitorDelivered(mon'[i]) > MonitorDelivered(mon[i])]_vars

\* C19: no coroutine is ended by notify_user.  A step whose notification does
\* not arrive takes the detection or the monitor where the step takes it
\* otherwise, and whatever has been lost, the traded list, the monitors and
\* the quantities are what the buys and the executed sells make them.
C19_LostNotificationChangesNothing ==
    /\ [](\A i \in DetIds :
             /\ det[i].pc # "crashed" /\ mon[i].pc # "crashed"
             /\ det[i].buy = "ok" <=> mon[i].pc # "none"
             /\ det[i].buy = "ok" =>
                    \E k \in DOMAIN traded_tokens :
                        traded_tokens[k] = det[i].ca_address
             /\ mon[i].sold = mon[i].n_executed * mon[i].sell_amount
             /\ mon[i].token_amount
                    = mon[i].bought - mon[i].sell_amount *
                          (mon[i].n_executed -
                             (IF \/ mon[i].pc = "notify_executed"
                                 \/ /\ mon[i].pc = "done"
                                    /\ mon[i].elapsed_time < max_monitoring_time
                              THEN 1 ELSE 0)))
    /\ [][\A i \in DetIds :
             /\ det'[i].lost # det[i].lost
                   => det'[i].pc \in {"notify_detected", "done"}
             /\ mon'[i].lost_executed # mon[i].lost_executed
                   => mon'[i].pc = "notify_executed"
             /\ mon'[i].lost_failed # mon[i].lost_failed
                   => mon'[i].pc = "sleep"]_vars

\* C19 witness: the "New Token Detected" notification was lost for want of a
\* destination, a later message was lost because the send raised, and the
\* position was nevertheless bought, monitored and partly sold.
C19_Witness ==
    \E i \in DetIds :
        /\ "detected" \in det[i].lost /\ det[i].buy = "ok"
        /\ user_chat_id /\ send_failures_left < MaxSendFailures
        /\ mon[i].lost_executed + mon[i].lost_failed >= 1
        /\ mon[i].pc = "sleep"
        /\ mon[i].n_executed >= 1 /\ mon[i].token_amount < mon[i].bought

\* C21: the active index is -1 exactly when the wallet list is empty and
\* otherwise an index into it; the list only grows; and in no state can a
\* selection with an index outside the list change the list or the active
\* index.
C21_ActiveIndexValid ==
    /\ [](/\ active_wallet_index = -1 <=> Len(wallets) = 0
          /\ active_wallet_index >= -1 /\ active_wallet_index < Len(wallets)
          /\ \A n \in SelectArgs :
                (n < 0 \/ n >= Len(wallets)) =>
                    ~ENABLED (/\ SelectWallet(n)
                              /\ <<wallets, active_wallet_index>>'
                                     # <<wallets, active_wallet_index>>))
    /\ [][/\ Len(wallets') >= Len(wallets)
          /\ \A k \in DOMAIN wallets : wallets'[k] = wallets[k]
          /\ (wallets' = wallets /\ active_wallet_index' # active_wallet_index)
                => active_wallet_index' \in 0..(Len(wallets) - 1)]_vars

\* C21 witness: three wallets, of which the second is active and the third
\* was made by the menu button.
C21_Witness ==
    /\ Len(wallets) = 3 /\ active_wallet_index = 1
    /\ wallet_info = 2 /\ keypair = 3

\* C22: in every state the settings are inside their ranges, in memory and
\* in the settings file: investment > 0, take-profit percentage > 0,
\* 0 < sell percentage <= 100.
C22_SettingsStayInRange ==
    /\ FloatGt(initial_investment, 0)
    /\ FloatGt(take_profit_percentage, 0)
    /\ FloatGt(sell_percentage, 0) /\ FloatLe(sell_percentage, 100)
    /\ FloatGt(saved_settings.initial_investment, 0)
    /\ FloatGt(saved_settings.take_profit_percentage, 0)
    /\ FloatGt(saved_settings.sell_percentage, 0)
    /\ FloatLe(saved_settings.sell_percentage, 100)

\* C23: once a monitor has computed its target, a change of the take-profit
\* or sell percentage leaves the monitor as it is, and the target changes
\* only when the monitor handles its own successful sell.
C23_SettingsChangeKeepsTarget ==
    [][\A i \in DetIds :
          /\ (take_profit_percentage' # take_profit_percentage
              \/ sell_percentage' # sell_percentage) => mon'[i] = mon[i]
          /\ (Running(i) /\ mon'[i].take_profit_price # mon[i].take_profit_price)
                => /\ mon[i].pc = "notify_executed"
                   /\ take_profit_percentage' = take_profit_percentage
                   /\ sell_percentage' = sell_percentage]_vars

\* C23 witness: a monitor started at 30% sells at the target it computed
\* then, after the take-profit percentage has been raised to 60% and the
\* sell percentage to 100%.
C23_Witness ==
    \E i \in DetIds :
        /\ mon[i].pc = "selling" /\ mon[i].n_executed = 0
        /\ take_profit_percentage = 60 /\ sell_percentage = 100
        /\ mon[i].pct0 = 50
        /\ mon[i].take_profit_price = InitialTakeProfit(mon[i].entry_price, 30)
        /\ mon[i].current_price * 1000
               < InitialTakeProfit(mon[i].entry_price, take_profit_percentage)

\* C24: after a successful partial sell has changed a position, the settings
\* file holds a record of that position with its quantity and its target as
\* they are in memory.
C24_PositionSnapshotSaved ==
    \A i \in DetIds :
        (mon[i].pc = "sleep" /\ mon[i].n_executed >= 1) =>
            /\ "positions" \in DOMAIN saved_settings
            /\ saved_settings.positions[i]
                   = [token_address |-> mon[i].token_address,
                      token_amount |-> mon[i].token_amount,
                      take_profit_price |-> mon[i].take_profit_price]

\* Sequence a is the beginning of sequence b.
IsPrefix(a, b) ==
    /\ Len(a) <= Len(b)
    /\ \A k \in DOMAIN a : b[k] = a[k]

\* C25: no step removes a token from the traded list: the list before a step
\* is the beginning of the list after it, in memory and in the settings
\* file, and the file holds the list that is in memory.
C25_TradedIsAppendOnly ==
    /\ [](saved_settings.traded_tokens = traded_tokens)
    /\ [][/\ IsPrefix(traded_tokens, traded_tokens')
          /\ IsPrefix(saved_settings.traded_tokens,
                      saved_settings'.traded_tokens)]_vars

\* C25 witness: two tokens were bought, the sell percentage was changed by a
\* command and a monitor has run; both tokens are in the list and in the
\* file, in the order of their buys.
C25_Witness ==
    /\ traded_tokens = <<"TOKENA", "TOKENB">>
    /\ saved_settings.traded_tokens = <<"TOKENA", "TOKENB">>
    /\ sell_percentage = 100
    /\ \E i \in DetIds : mon[i].n_executed >= 1

\* C26: whatever the other monitors are waiting for, a monitor can take the
\* step it is waiting for: start, receive a price (as long as the quote
\* service answers), receive the result of its sell, handle it, and wake
\* from its poll wait.
C26_MonitorsDoNotBlock ==
    \A i \in DetIds :
        /\ mon[i].pc = "start" => ENABLED MonitorStart(i)
        /\ (mon[i].pc = "poll" /\ polls_left > 0)
               => \A p \in PolledPrices : ENABLED PriceReturned(i, p)
        /\ mon[i].pc = "selling"
               => /\ ENABLED SellFailed(i)
                  /\ keypair # 0 => \A p \in ExecPrices : ENABLED SellSucceeded(i, p)
        /\ mon[i].pc = "notify_executed" => ENABLED AfterExecuted(i)
        /\ mon[i].pc = "sleep" => ENABLED Wake(i)

\* C26 witness: one monitor is inside sell_token while another one waits
\* for a price that the quote service will answer.
C26_Witness ==
    \E i \in DetIds, j \in DetIds :
        /\ i # j /\ mon[i].pc = "selling"
        /\ mon[j].pc = "poll" /\ polls_left > 0

\* A step in which something fails inside monitor i: its price request (the
\* poll returns 0), its sell, or the delivery of one of its notifications.
MonitorFailure(i) ==
    \/ mon[i].pc = "poll" /\ mon'[i] # mon[i] /\ mon'[i].current_price = 0
    \/ mon'[i].n_failed > mon[i].n_failed
    \/ mon'[i].lost_executed > mon[i].lost_executed
    \/ mon'[i].lost_failed > mon[i].lost_failed

\* C27: a failure inside one monitor changes no other monitor, no detection
\* and not the traded list, and ends no task; and whatever has failed, a
\* detection can still be delivered and a delivered one can still take its
\* next step.
C27_FailureStaysInItsMonitor ==
    /\ [][\A i \in DetIds :
             MonitorFailure(i) =>
                 /\ \A j \in DetIds : j # i => mon'[j] = mon[j]
                 /\ traded_tokens' = traded_tokens
                 /\ saved_settings' = saved_settings
                 /\ det' = det /\ detections_left' = detections_left
                 /\ mon'[i].pc \in {"sleep", "notify_executed"}]_vars
    /\ [](\A i \in DetIds :
             /\ (/\ det[i].pc = "idle" /\ detections_left > 0
                 /\ \A j \in DetIds : j < i => det[j].pc # "idle")
                    => ENABLED Detect(i, "TOKENA", "Alpha")
             /\ det[i].pc = "notify_detected" => ENABLED CheckTraded(i)
             /\ det[i].pc = "buying" => ENABLED BuyFailed(i))

\* C27 witness: one monitor has had a failed sell whose notification was
\* lost, after which a second token was detected and bought; the second
\* monitor waits for its first price with the target not yet trailed.
C27_Witness ==
    \E i \in DetIds, j \in DetIds :
        /\ i < j /\ mon[i].n_failed >= 1 /\ mon[i].lost_failed >= 1
        /\ mon[i].pc = "sleep"
        /\ det[j].buy = "ok" /\ mon[j].pc = "poll"
        /\ mon[j].token_amount = mon[j].bought

\* C28: a monitor calls sell_token only on a tick whose polled price fired
\* the trigger, and once on that tick; an executed sell sells sell_amount,
\* which on the first trigger is the sell percentage read at the start of the
\* monitor applied to the purchased quantity, and sends one "Take Profit
\* Executed" notification whose profit is (price of the executed sell - entry
\* price) * quantity sold.
C28_TriggerSellsOnceAndReportsProfit ==
    [][\A i \in DetIds :
         LET attempts  == mon[i].n_executed + mon[i].n_failed
             attempts2 == mon'[i].n_executed + mon'[i].n_failed
         IN  /\ (mon[i].pc = "selling" /\ mon'[i] # mon[i]) =>
                    /\ attempts2 = attempts + 1
                    /\ mon'[i].pc \in {"notify_executed", "sleep"}
             /\ attempts2 # attempts =>
                    /\ mon[i].pc = "selling"
                    /\ Triggered(mon[i].current_price, mon[i].take_profit_price)
             /\ mon'[i].n_executed # mon[i].n_executed =>
                    /\ mon'[i].n_executed = mon[i].n_executed + 1
                    /\ mon'[i].n_failed = mon[i].n_failed
                    /\ mon'[i].pc = "notify_executed"
                    /\ mon'[i].sold - mon[i].sold = mon[i].sell_amount
                    /\ mon[i].n_executed = 0 =>
                           (mon'[i].sold) * 100 = mon[i].bought * mon[i].pct0
                    /\ mon'[i].profit =
                           (mon'[i].sell_price - mon[i].entry_price)
                               * (mon'[i].sold - mon[i].sold)
             /\ (mon'[i].pc = "notify_executed" /\ mon[i].pc # "notify_executed") =>
                    mon'[i].n_executed = mon[i].n_executed + 1
    ]_vars

\* C28 happens: the first trigger of a position bought at 10 was executed at
\* 13, half of the purchased quantity was sold and the notification with the
\* profit of that sell is being sent.
C28_Witness ==
    \E i \in DetIds :
        /\ mon[i].pc = "notify_executed"
        /\ mon[i].n_executed = 1
        /\ mon[i].sell_price = 13
        /\ mon[i].sold * 2 = mon[i].bought
        /\ mon[i].profit = 3 * mon[i].sold
        /\ mon[i].profit > 0

\* C29: no call of get_balance ends in an exception; a call made without a
\* wallet, or whose balance request fails, returns 0; and a call leaves the
\* wallet, the signing key and all other state of the bot as they were.
C29_GetBalanceNeverRaises ==
    /\ [](/\ balance.outcome \in {"none", "returned"}
          /\ (balance.outcome = "returned"
                /\ (balance.info = 0 \/ balance.response = RequestFailed))
             => balance.value = 0)
    /\ [][balance' # balance =>
             UNCHANGED <<walletVars, traded_tokens, take_profit_percentage,
                         sell_percentage, initial_investment, saved_settings,
                         det, mon, user_chat_id, detections_left, polls_left,
                         send_failures_left>>]_vars

\* C29 happens: the trader has a wallet, the balance request failed, and the
\* call returned 0.
C29_Witness ==
    /\ balance.outcome = "returned"
    /\ balance.info # 0
    /\ balance.info = trader_wallet_info
    /\ balance.response = RequestFailed
    /\ balance.value = 0

\* C30: a monitor that has ended before the end of its monitoring time, which
\* it does only after an executed sell, has nothing left of its position.
C30_SaleEndLeavesNothing ==
    \A i \in DetIds :
        (mon[i].pc = "done" /\ mon[i].elapsed_time < max_monitoring_time)
            => Remaining(i) = 0

\* C31: until its first executed sell, the target of a running monitor is
\* the entry price raised by the take profit percentage that was in force when
\* the buy succeeded, which is the percentage the "New Token Trade"
\* notification announced.
C31_InitialTargetFromBuyTime ==
    \A i \in DetIds :
        (Running(i) /\ mon[i].n_executed = 0)
            => mon[i].take_profit_price =
                   InitialTakeProfit(mon[i].entry_price, det[i].announced)

\* The outcome notifications process_new_ca has sent for detection i.
Outcomes(i) ==
    {k \in DOMAIN det[i].notes : det[i].notes[k] \in {"skipped", "opened", "failed"}}

\* C32: a detection sends its outcome notification, one of "Trading Skipped",
\* "New Token Trade" and "Trade Failed", after "New Token Detected" and only
\* once, and every started detection comes to send one; buy_token is called
\* at most once for a detection, and never for one that is skipped.
C32_OneOutcomePerDetection ==
    /\ [](\A i \in DetIds :
            /\ Cardinality(Outcomes(i)) <= 1
            /\ det[i].pc # "idle" => det[i].notes[1] = "detected"
            /\ \A k \in Outcomes(i) : k > 1 /\ k = Len(det[i].notes)
            /\ det[i].pc = "done" <=> Outcomes(i) # {}
            /\ \A k \in Outcomes(i) :
                 /\ det[i].notes[k] = "skipped" => det[i].buy = "none"
                 /\ det[i].notes[k] = "opened" => det[i].buy = "ok"
                 /\ det[i].notes[k] = "failed" => det[i].buy = "fail")
    /\ [][\A i \in DetIds :
            det'[i].buy # det[i].buy =>
                \/ /\ det[i].buy = "none" /\ det'[i].buy = "pending"
                   /\ det[i].pc = "notify_detected"
                \/ /\ det[i].buy = "pending" /\ det'[i].buy \in {"ok", "fail"}
                   /\ det'[i].pc = "done"]_vars
    /\ \A i \in DetIds :
          (det[i].pc = "notify_detected") ~> (det[i].pc = "done")

\* C32 happens: one detection has ended with a trade, a later one of the
\* same token has ended skipped without a buy.
C32_Witness ==
    \E i, j \in DetIds :
        /\ det[i].pc = "done" /\ det[i].buy = "ok"
        /\ det[j].pc = "done" /\ det[j].buy = "none"
        /\ det[j].ca_address = det[i].ca_address
        /\ det[j].notes = <<"detected", "skipped">>

C35_TradedHasNoDuplicates ==
    Len(traded_tokens) =
        Cardinality({traded_tokens[k] : k \in DOMAIN traded_tokens})

\* C36: whenever control is with the event loop, trading_settings.json holds
\* the investment, both percentages and the traded list as they are in
\* memory.
C36_SavedSettingsEqualMemory ==
    saved_settings = Snapshot(initial_investment, take_profit_percentage,
                              sell_percentage, traded_tokens)

\* C36 happens: the investment and both percentages have been changed by
\* commands and a token has been bought, all of which the file holds.
C36_Witness ==
    /\ initial_investment # DefaultInvestment
    /\ take_profit_percentage # DefaultTakeProfit
    /\ sell_percentage # DefaultSellPercentage
    /\ traded_tokens # <<>>
    /\ saved_settings.traded_tokens = traded_tokens
    /\ saved_settings.initial_investment = initial_investment

\* C37: self.wallet_info of the bot is the wallet at the active index, and
\* it is None only while the wallet list is empty.
C37_BotWalletIsActiveWallet ==
    /\ wallet_info = GetActiveWallet(wallets, active_wallet_index)
    /\ wallet_info = 0 <=> wallets = <<>>

\* C38: once the handler of a message has ended, the callback has been
\* called once for every address of a message that is neither a forward nor
\* a reply, and not at all for a forward or a reply.
C38_OneCallbackPerAddress ==
    handler.pc \in {"returned", "raised"} =>
        \A k \in 1..Len(handler.addresses) :
            handler.calls[k] =
                IF handler.forward \/ handler.reply_to THEN 0 ELSE 1

\* C39: while no add_group is in progress, the saved list of the bot names
\* no group twice and names exactly the groups in the listener's set.
C39_GroupListMatchesListener ==
    adding = {} =>
        /\ \A j, k \in DOMAIN monitored_groups :
               monitored_groups[j] = monitored_groups[k] => j = k
        /\ {monitored_groups[k] : k \in DOMAIN monitored_groups} = listener_groups

====
